---- MODULE Spec2Model ----
(***************************************************************************)
(* Model of src/Gemini_rag.py: the query-understanding and retrieval       *)
(* pipeline (extract_info -> validate_and_route -> fetch_data -> summarize *)
(* | no_data_node) and the index() entry point that runs it.               *)
(*                                                                         *)
(* Text is modelled as a sequence of tokens.  A token is a maximal run of  *)
(* characters that the code never looks inside: a whitespace character, a  *)
(* semicolon, a code-fence marker, a keyword, a name.  The empty string is *)
(* the empty sequence, so Python truthiness of a string is  s # <<>>.      *)
(* The text-completion gateway and the store are the environment: each     *)
(* call returns a nondeterministically chosen completion / outcome, or     *)
(* raises.                                                                 *)
(***************************************************************************)
EXTENDS Naturals, Sequences, FiniteSets, TLC

\* ------------------------------------------------------------------ bounds

\* most rows the store returns for one statement
MaxRows == 2

\* ------------------------------------------------------------ text helpers

\* whitespace characters, as str.strip() and the regex class \s see them
WS == {" ", "\n"}

RECURSIVE LStrip(_)
LStrip(s) == IF s # <<>> /\ Head(s) \in WS THEN LStrip(Tail(s)) ELSE s

RECURSIVE RStrip(_)
RStrip(s) ==
    IF s # <<>> /\ s[Len(s)] \in WS THEN RStrip(SubSeq(s, 1, Len(s) - 1)) ELSE s

\* str.strip()
Strip(s) == LStrip(RStrip(s))

\* str.rstrip(";")
RECURSIVE RStripSemi(_)
RStripSemi(s) ==
    IF s # <<>> /\ s[Len(s)] = ";" THEN RStripSemi(SubSeq(s, 1, Len(s) - 1)) ELSE s

\* str.upper() / str.lower() on one token; tokens without letters of
\* interest map to themselves
UpperTok(t) ==
    CASE t \in {"select", "Select"} -> "SELECT"
      [] t = "where" -> "WHERE"
      [] t = "and" -> "AND"
      [] t = "sql" -> "SQL"
      [] OTHER -> t

LowerTok(t) ==
    CASE t \in {"None", "NONE"} -> "none"
      [] t \in {"Null", "NULL"} -> "null"
      [] t \in {"No", "NO"} -> "no"
      [] t \in {"SQL", "Sql"} -> "sql"
      [] OTHER -> t

Upper(s) == [i \in 1..Len(s) |-> UpperTok(s[i])]
Lower(s) == [i \in 1..Len(s) |-> LowerTok(s[i])]

\* sub in s  (substring test)
Contains(s, sub) ==
    \E i \in 1..(Len(s) + 1) :
        /\ i + Len(sub) - 1 <= Len(s)
        /\ SubSeq(s, i, i + Len(sub) - 1) = sub

Range(s) == {s[i] : i \in 1..Len(s)}

\* a message: text the code never looks inside
Msg(m) == <<m>>

\* ------------------------------------------------------------ the catalog

\* keys of FIELD_DEFS (a sample of the columns the metadata file names)
FIELD_DEFS == {"VisualAcuityRe", "VisualAcuityLe", "Diagnosis"}

\* ------------------------------------------------------------ the gateway

\* what one llm.invoke(messages) does: it raises, or returns a Response
\* whose content is the completion text
Raised == [ok |-> FALSE, content |-> <<>>]
Completion(text) == [ok |-> TRUE, content |-> text]

\* None, as the extractor returns it; None and "" are both falsy and the code
\* only ever tests patient_id for truthiness
None == <<>>

\* ----------------------------------------------- extract_patient_id_llm

\* the value extract_patient_id_llm returns when the gateway answers resp
extract_patient_id_llm(user_query, resp) ==
    IF user_query = <<>> \/ Strip(user_query) = <<>> THEN None
    ELSE IF ~resp.ok THEN None
    ELSE LET content == Strip(resp.content)
         IN  IF Lower(content) \in {<<"none">>, <<"null">>, <<"no">>, <<>>}
             THEN None
             ELSE content

\* ------------------------------------------------------- extract_fields

\* the string literals that occur in field completions, with their values
LitValue(t) ==
    CASE t = "'VisualAcuityRe'" -> "VisualAcuityRe"
      [] t = "'VisualAcuityLe'" -> "VisualAcuityLe"
      [] t = "'Diagnosis'" -> "Diagnosis"
      [] t = "'visualacuityre'" -> "visualacuityre"
      [] t = "'Bogus'" -> "Bogus"
      [] OTHER -> t

IsLiteral(t) ==
    t \in {"'VisualAcuityRe'", "'VisualAcuityLe'", "'Diagnosis'",
           "'visualacuityre'", "'Bogus'", "7"}

\* bytes.decode("unicode_escape") on one token
UnescapeTok(t) ==
    CASE t = "\\n" -> "\n"
      [] t = "\\'VisualAcuityRe\\'" -> "'VisualAcuityRe'"
      [] t = "\\'Bogus\\'" -> "'Bogus'"
      [] OTHER -> t

Unescape(s) == [i \in 1..Len(s) |-> UnescapeTok(s[i])]

RECURSIVE DropWS(_)
DropWS(s) ==
    IF s = <<>> THEN <<>>
    ELSE IF Head(s) \in WS THEN DropWS(Tail(s))
    ELSE <<Head(s)>> \o DropWS(Tail(s))

\* the elements of a list display's inside: literal ("," literal)* [","]
RECURSIVE ListItems(_)
ListItems(inner) ==
    IF inner = <<>> THEN [ok |-> TRUE, items |-> <<>>]
    ELSE IF ~IsLiteral(Head(inner)) THEN [ok |-> FALSE, items |-> <<>>]
    ELSE IF Len(inner) = 1 THEN [ok |-> TRUE, items |-> <<LitValue(Head(inner))>>]
    ELSE IF inner[2] # "," THEN [ok |-> FALSE, items |-> <<>>]
    ELSE LET rest == ListItems(SubSeq(inner, 3, Len(inner)))
         IN  [ok |-> rest.ok, items |-> <<LitValue(Head(inner))>> \o rest.items]

\* ast.literal_eval: kind "list" with its items, kind "other" for a literal
\* that is no list, kind "error" when it raises
literal_eval(text) ==
    LET t == DropWS(text)
    IN  IF Len(t) >= 2 /\ t[1] = "[" /\ t[Len(t)] = "]"
        THEN LET r == ListItems(SubSeq(t, 2, Len(t) - 1))
             IN  IF r.ok THEN [kind |-> "list", items |-> r.items]
                 ELSE [kind |-> "error", items |-> <<>>]
        ELSE IF Len(t) = 1 /\ IsLiteral(t[1])
        THEN [kind |-> "other", items |-> <<>>]
        ELSE [kind |-> "error", items |-> <<>>]

\* extract_fields keeping every extracted name
FilterFields_KeepAll(extracted, field_defs) == extracted

\* [f for f in extracted if f in field_defs]
RECURSIVE FilterFields(_, _)
FilterFields(extracted, field_defs) ==
    IF extracted = <<>> THEN <<>>
    ELSE IF Head(extracted) \in field_defs
    THEN <<Head(extracted)>> \o FilterFields(Tail(extracted), field_defs)
    ELSE FilterFields(Tail(extracted), field_defs)

\* extract_fields asking the gateway even for an empty query
extract_fields_NoEmptyCheck(user_query, field_defs, resp) ==
    IF ~resp.ok THEN <<>>
    ELSE LET extracted == literal_eval(Strip(resp.content))
         IN  IF extracted.kind = "list"
             THEN FilterFields(extracted.items, field_defs)
             ELSE <<>>

\* the list extract_fields returns when the gateway answers resp
extract_fields(user_query, field_defs, resp) ==
    IF user_query = <<>> \/ Strip(user_query) = <<>> THEN <<>>
    ELSE IF ~resp.ok THEN <<>>
    ELSE LET raw_output == Strip(resp.content)
             unquoted ==
                 IF raw_output # <<>> /\ raw_output[1] = "\""
                    /\ raw_output[Len(raw_output)] = "\""
                 THEN Unescape(SubSeq(raw_output, 2, Len(raw_output) - 1))
                 ELSE raw_output
             extracted == literal_eval(unquoted)
         IN  IF extracted.kind = "list"
             THEN FilterFields(extracted.items, field_defs)
             ELSE <<>>

\* whether the two extractors call the gateway at all
ExtractorCallsGateway(user_query) == ~(user_query = <<>> \/ Strip(user_query) = <<>>)

\* --------------------------------------------------- statement synthesis

\* the code-fence marker (three backquotes), one token
FENCE == "<fence>"

table == "patients"

\* re.sub of a fence marker followed by sql (any case) and whitespace: line 289
RECURSIVE SubFenceSql(_)
SubFenceSql(s) ==
    IF s = <<>> THEN <<>>
    ELSE IF Len(s) >= 2 /\ s[1] = FENCE /\ LowerTok(s[2]) = "sql"
    THEN SubFenceSql(LStrip(SubSeq(s, 3, Len(s))))
    ELSE <<Head(s)>> \o SubFenceSql(Tail(s))

\* re.sub of a fence marker followed by whitespace: line 290
RECURSIVE SubFence(_)
SubFence(s) ==
    IF s = <<>> THEN <<>>
    ELSE IF s[1] = FENCE THEN SubFence(LStrip(Tail(s)))
    ELSE <<Head(s)>> \o SubFence(Tail(s))

\* the sanitizer appending a semicolon without stripping the ones there
Sanitize_NoRstrip(content) ==
    Strip(SubFence(SubFenceSql(Strip(content)))) \o <<";">>

\* lines 287-293: the completion text made into the statement
Sanitize(content) ==
    RStripSemi(Strip(SubFence(SubFenceSql(Strip(content))))) \o <<";">>

\* f"Anonymous_Uid = '{patient_id}'"
IdCondition(patient_id) == <<"Anonymous_Uid = '">> \o patient_id \o <<"'">>

\* str.startswith("SELECT")
StartsWithSelect(s) == s # <<>> /\ s[1] = "SELECT"

\* validate_sql_query without the identifier check
validate_sql_query_SelectOnly(sql_query, patient_id, fields, tbl) ==
    StartsWithSelect(Upper(sql_query))

\* the is_valid component of validate_sql_query's result (the statement is
\* returned unchanged; the WHERE/AND inspection only prints)
validate_sql_query(sql_query, patient_id, fields, tbl) ==
    /\ StartsWithSelect(Upper(sql_query))
    /\ Contains(sql_query, IdCondition(patient_id))

\* ---------------------------------------------------------------- store

\* the columns of the patients table
TableColumns == <<"Anonymous_Uid", "VisualAcuityRe", "VisualAcuityLe", "Diagnosis">>

\* SQL NULL, which sqlite3 hands back as None
NULL == "<None>"

\* rows the table may hold
RowSamples ==
    { [Anonymous_Uid |-> "P1", VisualAcuityRe |-> "6/6", VisualAcuityLe |-> "6/9",
       Diagnosis |-> "Myopia"],
      [Anonymous_Uid |-> "P1", VisualAcuityRe |-> NULL, VisualAcuityLe |-> " ",
       Diagnosis |-> ""],
      [Anonymous_Uid |-> "P2", VisualAcuityRe |-> "6/12", VisualAcuityLe |-> NULL,
       Diagnosis |-> "Cataract"] }

\* the contents the table may have: up to MaxRows rows
Tables == UNION { [1..n -> RowSamples] : n \in 0..MaxRows }

RECURSIVE DropCommas(_)
DropCommas(s) ==
    IF s = <<>> THEN <<>>
    ELSE IF Head(s) = "," THEN DropCommas(Tail(s))
    ELSE <<Head(s)>> \o DropCommas(Tail(s))

FirstIndex(s, t) ==
    IF t \in Range(s) THEN CHOOSE i \in 1..Len(s) : s[i] = t /\ \A j \in 1..(i - 1) : s[j] # t
    ELSE 0

\* the statement as sqlite reads it: ok is FALSE for text sqlite rejects;
\* cols is the result's column names (cur.description), pid the identifier
\* the WHERE clause compares with, diag an extra AND-ed filter ("" for none)
ParseSelect(stmt) ==
    LET t == DropWS(RStripSemi(RStrip(stmt)))
        f == FirstIndex(t, "FROM")
        sel == DropCommas(SubSeq(t, 2, f - 1))
        tl == SubSeq(t, f + 1, Len(t))
        bad == [ok |-> FALSE, cols |-> <<>>, pid |-> "", diag |-> ""]
    IN  IF ~(StartsWithSelect(Upper(t)) /\ f > 2) THEN bad
        ELSE IF ~(sel = <<"*">> \/ Range(sel) \subseteq Range(TableColumns)) THEN bad
        ELSE IF ~(Len(tl) \in {5, 7} /\ tl[1] = table /\ UpperTok(tl[2]) = "WHERE"
                  /\ tl[3] = "Anonymous_Uid = '" /\ tl[5] = "'") THEN bad
        ELSE IF Len(tl) = 7 /\ ~(UpperTok(tl[6]) = "AND" /\ tl[7] = "Diagnosis = 'Myopia'")
        THEN bad
        ELSE [ok |-> TRUE,
              cols |-> IF sel = <<"*">> THEN TableColumns ELSE sel,
              pid |-> tl[4],
              diag |-> IF Len(tl) = 7 THEN "Myopia" ELSE ""]

\* the rows of db the statement selects, in table order
RECURSIVE SelectRows(_, _)
SelectRows(db, q) ==
    IF db = <<>> THEN <<>>
    ELSE IF Head(db).Anonymous_Uid = q.pid /\ (q.diag = "" \/ Head(db).Diagnosis = q.diag)
    THEN <<Head(db)>> \o SelectRows(Tail(db), q)
    ELSE SelectRows(Tail(db), q)

\* dict(zip(col_names, row)) for the row record r projected on cols
DictZip(cols, r) == [c \in Range(cols) |-> r[c]]

\* lines 301-307 on a store that works: [ok, results]; ok FALSE is sqlite3.Error
Execute(stmt, db) ==
    LET q == ParseSelect(stmt)
        rows == SelectRows(db, q)
    IN  IF ~q.ok THEN [ok |-> FALSE, results |-> <<>>]
        ELSE [ok |-> TRUE, results |-> [i \in 1..Len(rows) |-> DictZip(q.cols, rows[i])]]

\* ------------------------------------------------------------ summarizer

\* value is None or str(value).strip() == ""
BlankValue(v) == v = NULL \/ v \in {"", " "}

\* the degenerate-data test of node_summarize, lines 321-324
NoMeaningfulData(data) ==
    \/ data = <<>>
    \/ \A i \in 1..Len(data) : \A c \in DOMAIN data[i] : BlankValue(data[i][c])

\* summarize_patient_data returning the completion untrimmed
summarize_patient_data_NoStrip(data, resp) ==
    IF data = <<>> THEN [ok |-> TRUE, text |-> <<"No patient data available to summarize.">>]
    ELSE IF ~resp.ok THEN [ok |-> FALSE, text |-> <<>>]
    ELSE [ok |-> TRUE, text |-> resp.content]

\* summarize_patient_data: [ok, text]; ok FALSE when llm.invoke raises
summarize_patient_data(data, resp) ==
    IF data = <<>> THEN [ok |-> TRUE, text |-> Msg("No patient data available to summarize.")]
    ELSE IF ~resp.ok THEN [ok |-> FALSE, text |-> <<>>]
    ELSE [ok |-> TRUE, text |-> Strip(resp.content)]

\* ------------------------------------------------------- the graph nodes

ErrNothingExtracted == Msg("No fields or patient ID could be extracted.")
ErrMissingForFetch == Msg("Missing patient ID or fields for fetch")
ErrValidation == Msg("Generated SQL query failed validation")
ErrNoData == Msg("No data found for this patient.")
ErrSqlExecution == Msg("SQL execution error: <e>")
ErrFetch == Msg("Fetch data error: <e>")
ErrSummarization == Msg("Summarization error: <e>")
ErrRecursion == Msg("Max recursion limit reached; stopping.")
MsgNoMeaningful == Msg("No meaningful patient data available to summarize.")
MsgNoFieldsNoId == Msg("No relevant fields and Patient ID missing; cannot fetch data.")
MsgNoFields == Msg("No relevant fields extracted from the query.")
MsgNoId == Msg("Patient ID missing; cannot fetch data.")
MsgUnknown == Msg("Unknown error.")

\* the patch a node returns is merged into the context key by key
Merge(st, patch) ==
    [k \in DOMAIN st |-> IF k \in DOMAIN patch THEN patch[k] ELSE st[k]]

\* dict.get(key, default)
Get(d, k, default) == IF k \in DOMAIN d THEN d[k] ELSE default

\* node_extract_info reporting an error when either part is missing
node_extract_info_EitherMissing(st, fieldsResp, pidResp) ==
    LET fields == extract_fields(st.user_query, FIELD_DEFS, fieldsResp)
        patient_id == extract_patient_id_llm(st.user_query, pidResp)
        error == IF fields = <<>> \/ patient_id = <<>> THEN ErrNothingExtracted ELSE <<>>
    IN  [fields |-> fields, patient_id |-> patient_id, error |-> error]

\* node_extract_info: the patch, given the gateway's two answers.  Both
\* extractors contain their own failures, so the except branch of line 229
\* is not taken.
node_extract_info(st, fieldsResp, pidResp) ==
    LET fields == extract_fields(st.user_query, FIELD_DEFS, fieldsResp)
        patient_id == extract_patient_id_llm(st.user_query, pidResp)
        error == IF fields = <<>> /\ patient_id = <<>> THEN ErrNothingExtracted ELSE <<>>
    IN  [fields |-> fields, patient_id |-> patient_id, error |-> error]

\* route_valid fetching when either of fields and patient_id is present
route_valid_EitherPresent(st) ==
    IF st.fields # <<>> \/ st.patient_id # <<>> THEN "fetch_data" ELSE "no_data_node"

\* route_valid with its two targets exchanged when nothing is in error
route_valid_Inverted(st) ==
    IF st.error # <<>> THEN "no_data_node"
    ELSE IF st.fields # <<>> /\ st.patient_id # <<>> THEN "no_data_node"
    ELSE "fetch_data"

\* route_valid
route_valid(st) ==
    IF st.error # <<>> THEN "no_data_node"
    ELSE IF st.fields # <<>> /\ st.patient_id # <<>> THEN "fetch_data"
    ELSE "no_data_node"

\* node_fetch_data without the re-check of patient_id and fields
node_fetch_data_NoRecheck(st, sqlResp, db, env) ==
    LET patient_id == st.patient_id
        fields == st.fields
        sql_query == Sanitize(sqlResp.content)
        is_valid == validate_sql_query(sql_query, patient_id, fields, table)
        ex == Execute(sql_query, db)
        call == <<[task |-> "sql", resp |-> sqlResp]>>
    IN  IF ~sqlResp.ok
        THEN [patch |-> [fetched_data |-> <<>>, error |-> ErrFetch, sql_query |-> <<>>],
              calls |-> call, store |-> <<>>]
        ELSE IF ~is_valid
        THEN [patch |-> [fetched_data |-> <<>>, error |-> ErrValidation,
                         sql_query |-> sql_query],
              calls |-> call, store |-> <<>>]
        ELSE IF env = "connect_error"
        THEN [patch |-> [fetched_data |-> <<>>, error |-> ErrSqlExecution,
                         sql_query |-> <<>>],
              calls |-> call, store |-> <<>>]
        ELSE IF env = "execute_error" \/ ~ex.ok
        THEN [patch |-> [fetched_data |-> <<>>, error |-> ErrSqlExecution,
                         sql_query |-> <<>>],
              calls |-> call,
              store |-> <<[stmt |-> sql_query, executed |-> 1, closed |-> FALSE,
                           results |-> <<>>]>>]
        ELSE IF ex.results = <<>>
        THEN [patch |-> [fetched_data |-> <<>>, error |-> ErrNoData,
                         sql_query |-> sql_query],
              calls |-> call,
              store |-> <<[stmt |-> sql_query, executed |-> 1, closed |-> TRUE,
                           results |-> <<>>]>>]
        ELSE [patch |-> [fetched_data |-> ex.results, error |-> <<>>,
                         sql_query |-> sql_query],
              calls |-> call,
              store |-> <<[stmt |-> sql_query, executed |-> 1, closed |-> TRUE,
                           results |-> ex.results]>>]

\* node_fetch_data: the patch, the gateway calls made, and what happened to
\* the store (one entry per sqlite3.connect).  sqlResp is the gateway's
\* answer, db the table's contents, env what the store's environment does:
\* "up", "connect_error" (sqlite3.connect raises) or "execute_error"
\* (cur.execute raises whatever the statement is).
node_fetch_data(st, sqlResp, db, env) ==
    LET patient_id == st.patient_id
        fields == st.fields
        sql_query == Sanitize(sqlResp.content)
        is_valid == validate_sql_query(sql_query, patient_id, fields, table)
        ex == Execute(sql_query, db)
        call == <<[task |-> "sql", resp |-> sqlResp]>>
    IN  IF patient_id = <<>> \/ fields = <<>>
        THEN [patch |-> [fetched_data |-> <<>>, error |-> ErrMissingForFetch,
                         sql_query |-> <<>>],
              calls |-> <<>>, store |-> <<>>]
        ELSE IF ~sqlResp.ok
        THEN [patch |-> [fetched_data |-> <<>>, error |-> ErrFetch, sql_query |-> <<>>],
              calls |-> call, store |-> <<>>]
        ELSE IF ~is_valid
        THEN [patch |-> [fetched_data |-> <<>>, error |-> ErrValidation,
                         sql_query |-> sql_query],
              calls |-> call, store |-> <<>>]
        ELSE IF env = "connect_error"
        THEN [patch |-> [fetched_data |-> <<>>, error |-> ErrSqlExecution,
                         sql_query |-> <<>>],
              calls |-> call, store |-> <<>>]
        ELSE IF env = "execute_error" \/ ~ex.ok
        THEN [patch |-> [fetched_data |-> <<>>, error |-> ErrSqlExecution,
                         sql_query |-> <<>>],
              calls |-> call,
              store |-> <<[stmt |-> sql_query, executed |-> 1, closed |-> FALSE,
                           results |-> <<>>]>>]
        ELSE IF ex.results = <<>>
        THEN [patch |-> [fetched_data |-> <<>>, error |-> ErrNoData,
                         sql_query |-> sql_query],
              calls |-> call,
              store |-> <<[stmt |-> sql_query, executed |-> 1, closed |-> TRUE,
                           results |-> <<>>]>>]
        ELSE [patch |-> [fetched_data |-> ex.results, error |-> <<>>,
                         sql_query |-> sql_query],
              calls |-> call,
              store |-> <<[stmt |-> sql_query, executed |-> 1, closed |-> TRUE,
                           results |-> ex.results]>>]

\* whether node_summarize calls the gateway
SummarizeCallsGateway(st) == ~NoMeaningfulData(st.fetched_data)

\* node_summarize keeping an error an earlier stage reported
node_summarize_KeepError(st, resp) ==
    IF st.error # <<>> THEN [summary |-> st.error, error |-> st.error]
    ELSE IF NoMeaningfulData(st.fetched_data)
    THEN [summary |-> MsgNoMeaningful, error |-> <<>>]
    ELSE IF ~resp.ok THEN [summary |-> ErrSummarization, error |-> ErrSummarization]
    ELSE [summary |-> Strip(resp.content), error |-> <<>>]

\* node_summarize: the patch, given the gateway's answer
node_summarize(st, resp) ==
    LET data == st.fetched_data
        r == summarize_patient_data(data, resp)
    IN  IF NoMeaningfulData(data) THEN [summary |-> MsgNoMeaningful, error |-> <<>>]
        ELSE IF ~r.ok THEN [summary |-> ErrSummarization, error |-> ErrSummarization]
        ELSE [summary |-> r.text, error |-> <<>>]

\* node_no_data reporting its message in summary only
node_no_data_SummaryOnly(st) ==
    [fetched_data |-> <<>>,
     summary |-> IF st.error # <<>> THEN st.error ELSE MsgNoFieldsNoId,
     error |-> <<>>]

\* node_no_data with the messages of its two partial cases exchanged
node_no_data_Swapped(st) ==
    LET fields_ok == st.fields # <<>>
        patient_ok == st.patient_id # <<>>
        msg == IF st.error # <<>> THEN st.error
               ELSE IF ~fields_ok /\ ~patient_ok THEN MsgNoFieldsNoId
               ELSE IF ~fields_ok THEN MsgNoId
               ELSE IF ~patient_ok THEN MsgNoFields
               ELSE MsgUnknown
    IN  [fetched_data |-> <<>>, summary |-> msg, error |-> msg]

\* node_no_data
node_no_data(st) ==
    LET fields_ok == st.fields # <<>>
        patient_ok == st.patient_id # <<>>
        msg == IF st.error # <<>> THEN st.error
               ELSE IF ~fields_ok /\ ~patient_ok THEN MsgNoFieldsNoId
               ELSE IF ~fields_ok THEN MsgNoFields
               ELSE IF ~patient_ok THEN MsgNoId
               ELSE MsgUnknown
    IN  [fetched_data |-> <<>>, summary |-> msg, error |-> msg]

\* ------------------------------------------------------- the environment

\* what the form may post as user_query, before index strips it
FormInputs ==
    { <<>>, <<" ">>,
      <<"show", " ", "acuity", " ", "for", " ", "P1">>,
      <<" ", "show", " ", "acuity", " ", "for", " ", "P1", "\n">> }

\* what the gateway may answer to the field-extraction prompt
FieldResponses ==
    { Raised,
      Completion(<<"[", "'VisualAcuityRe'", ",", " ", "'VisualAcuityLe'", "]">>),
      Completion(<<"[", "'VisualAcuityRe'", ",", "'Bogus'", "]">>),
      Completion(<<"[", "'Bogus'", "]">>),
      Completion(<<"[", "'visualacuityre'", ",", "7", "]">>),
      Completion(<<"[", "]">>),
      Completion(<<" ", "[", "'Diagnosis'", "]", "\n">>),
      Completion(<<"\"", "[", "\\'VisualAcuityRe\\'", ",", "\\'Bogus\\'", "]", "\"">>),
      Completion(<<FENCE, "python", "\n", "[", "'Diagnosis'", "]", "\n", FENCE>>),
      Completion(<<"'Diagnosis'">>),
      Completion(<<>>) }

\* what the gateway may answer to the patient-identifier prompt
PidResponses ==
    { Raised,
      Completion(<<"P1">>),
      Completion(<<" ", "P2", "\n">>),
      Completion(<<"None">>),
      Completion(<<"NULL">>),
      Completion(<<"no">>),
      Completion(<<" ">>) }

\* "a, b, c"
RECURSIVE CommaList(_)
CommaList(names) ==
    IF names = <<>> THEN <<>>
    ELSE IF Len(names) = 1 THEN names
    ELSE <<Head(names), ",", " ">> \o CommaList(Tail(names))

\* SELECT <cols> FROM patients WHERE Anonymous_Uid = '<pid>'
SelectText(kw, cols, eq, pid) ==
    <<kw, " ">> \o cols \o <<" ", "FROM", " ", table, " ", "WHERE", " ", eq>>
        \o pid \o <<"'">>

\* an identifier other than pid
OtherId(pid) == IF pid = <<"P1">> THEN <<"P2">> ELSE <<"P1">>

\* what the gateway may answer to the statement prompt for this context
SqlResponses(patient_id, fields) ==
    LET cols == CommaList(fields)
        good == SelectText("SELECT", cols, "Anonymous_Uid = '", patient_id)
    IN  { Raised,
          Completion(good),
          Completion(good \o <<";">>),
          Completion(<<" ">> \o good \o <<";", ";", "\n">>),
          Completion(<<FENCE, "sql", "\n">> \o good \o <<";", ";", "\n", FENCE>>),
          Completion(<<FENCE, "\n">> \o good \o <<"\n", FENCE>>),
          Completion(<<FENCE, "sql", "ite", "\n">> \o good \o <<"\n", FENCE>>),
          Completion(good \o <<";", " ", ";">>),
          Completion(SelectText("select", cols, "Anonymous_Uid = '", patient_id)),
          Completion(good \o <<" ", "AND", " ", "Diagnosis = 'Myopia'">>),
          Completion(SelectText("SELECT", <<"*">>, "Anonymous_Uid = '", patient_id)),
          Completion(SelectText("SELECT", <<"Diagnosis">>, "Anonymous_Uid = '",
                                patient_id)),
          Completion(SelectText("SELECT", <<"Bogus">>, "Anonymous_Uid = '", patient_id)),
          Completion(SelectText("SELECT", cols, "Anonymous_Uid = '", OtherId(patient_id))),
          Completion(SelectText("SELECT", cols, "Anonymous_Uid='", patient_id)),
          Completion(SelectText("DELETE", <<>>, "Anonymous_Uid = '", patient_id)),
          Completion(<<"Here", " ", "is", " ", "the", " ", "query:", "\n">> \o good),
          Completion(<<>>) }

\* what the store's environment may do to one fetch
StoreEnvs == {"up", "connect_error", "execute_error"}

\* what the gateway may answer to the summary prompt
SummaryResponses ==
    { Raised,
      Completion(<<"The", " ", "patient", " ", "has", " ", "myopia.">>),
      Completion(<<"\n", "The", " ", "patient", " ", "has", " ", "myopia.", " ">>),
      Completion(<<" ", "\n">>),
      Completion(<<>>) }

\* ---------------------------------------------------------------- state

\* recursion_limit of graph.invoke, line 383
RecursionLimit == 5

VARIABLES
    pc,               \* "idle", the stage to run next, "end", "rendered"
    state,            \* the State threaded through the graph
    steps,            \* stage executions of this run so far
    recursion_limit,  \* the step ceiling handed to graph.invoke
    final_state,      \* what index holds after graph.invoke
    result,           \* what index hands to the template
    gatewayCalls,     \* the gateway calls made, in order
    storeLog,         \* the store connections made, in order
    ran,              \* the stages executed, in order
    form              \* user_query as the form posted it

vars ==
    <<pc, state, steps, recursion_limit, final_state, result, gatewayCalls, storeLog,
      ran, form>>

Stages == {"extract_info", "validate_and_route", "fetch_data", "summarize", "no_data_node"}

\* initial_state, lines 373-381, before user_query is known
EmptyState ==
    [user_query |-> <<>>, fields |-> <<>>, patient_id |-> <<>>, fetched_data |-> <<>>,
     summary |-> <<>>, error |-> <<>>, sql_query |-> <<>>]

NoResult == [present |-> FALSE]

InitCommon ==
    /\ pc = "idle"
    /\ state = EmptyState
    /\ steps = 0
    /\ final_state = EmptyState
    /\ result = NoResult
    /\ gatewayCalls = <<>>
    /\ storeLog = <<>>
    /\ ran = <<>>
    /\ form = <<>>

Init == InitCommon /\ recursion_limit = RecursionLimit

\* the ceiling as a parameter of the orchestrator: any ceiling up to the
\* configured one
InitCeiling == InitCommon /\ recursion_limit \in 1..RecursionLimit

\* the orchestrator runs a stage only while the step ceiling is not reached
MayRun(stage) == pc = stage /\ steps < recursion_limit

\* index, lines 371-381: a POST arrives and the run starts at extract_info
Post ==
    /\ pc = "idle"
    /\ \E raw \in FormInputs :
           /\ form' = raw
           /\ state' = [EmptyState EXCEPT !.user_query = Strip(raw)]
    /\ pc' = "extract_info"
    /\ UNCHANGED <<steps, recursion_limit, final_state, result, gatewayCalls, storeLog, ran>>

ExtractInfo ==
    /\ MayRun("extract_info")
    /\ \E fr \in FieldResponses, pr \in PidResponses :
           /\ state' = Merge(state, node_extract_info(state, fr, pr))
           /\ gatewayCalls' =
                  IF ExtractorCallsGateway(state.user_query)
                  THEN gatewayCalls \o <<[task |-> "fields", resp |-> fr],
                                         [task |-> "patient_id", resp |-> pr]>>
                  ELSE gatewayCalls
    /\ pc' = "validate_and_route"
    /\ steps' = steps + 1
    /\ ran' = Append(ran, "extract_info")
    /\ UNCHANGED <<recursion_limit, final_state, result, storeLog, form>>

\* node_validate_and_route returns the empty patch; its conditional edge
\* asks route_valid for the next stage
ValidateAndRoute ==
    /\ MayRun("validate_and_route")
    /\ pc' = route_valid(state)
    /\ steps' = steps + 1
    /\ ran' = Append(ran, "validate_and_route")
    /\ UNCHANGED <<state, recursion_limit, final_state, result, gatewayCalls, storeLog, form>>

FetchData ==
    /\ MayRun("fetch_data")
    /\ \E sr \in SqlResponses(state.patient_id, state.fields), db \in Tables,
          env \in StoreEnvs :
           LET r == node_fetch_data(state, sr, db, env)
           IN  /\ state' = Merge(state, r.patch)
               /\ gatewayCalls' = gatewayCalls \o r.calls
               /\ storeLog' = storeLog \o r.store
    /\ pc' = "summarize"
    /\ steps' = steps + 1
    /\ ran' = Append(ran, "fetch_data")
    /\ UNCHANGED <<recursion_limit, final_state, result, form>>

Summarize ==
    /\ MayRun("summarize")
    /\ \E resp \in SummaryResponses :
           /\ state' = Merge(state, node_summarize(state, resp))
           /\ gatewayCalls' =
                  IF SummarizeCallsGateway(state)
                  THEN gatewayCalls \o <<[task |-> "summary", resp |-> resp]>>
                  ELSE gatewayCalls
    /\ pc' = "end"
    /\ final_state' = state'
    /\ steps' = steps + 1
    /\ ran' = Append(ran, "summarize")
    /\ UNCHANGED <<recursion_limit, result, storeLog, form>>

\* no_data_node with an edge back to extract_info
NoData_LoopsBack ==
    /\ MayRun("no_data_node")
    /\ state' = Merge(state, node_no_data(state))
    /\ pc' = "extract_info"
    /\ steps' = steps + 1
    /\ ran' = Append(ran, "no_data_node")
    /\ UNCHANGED <<recursion_limit, final_state, result, gatewayCalls, storeLog, form>>

NoData ==
    /\ MayRun("no_data_node")
    /\ state' = Merge(state, node_no_data(state))
    /\ pc' = "end"
    /\ final_state' = state'
    /\ steps' = steps + 1
    /\ ran' = Append(ran, "no_data_node")
    /\ UNCHANGED <<recursion_limit, result, gatewayCalls, storeLog, form>>

\* the abort keeping the context of the stages that ran
RecursionAbort_KeepPartial ==
    /\ pc \in Stages
    /\ steps >= recursion_limit
    /\ final_state' = [state EXCEPT !.error = ErrRecursion]
    /\ pc' = "end"
    /\ UNCHANGED <<state, steps, recursion_limit, result, gatewayCalls, storeLog, ran, form>>

\* GraphRecursionError, lines 384-385: a stage is due and the ceiling is reached
RecursionAbort ==
    /\ pc \in Stages
    /\ steps >= recursion_limit
    /\ final_state' = [error |-> ErrRecursion, sql_query |-> <<>>]
    /\ pc' = "end"
    /\ UNCHANGED <<state, steps, recursion_limit, result, gatewayCalls, storeLog, ran, form>>

\* the result record index builds from final_state, lines 388-395
ResultOf(fs, user_query) ==
    [present |-> TRUE,
     query |-> user_query,
     fields |-> Get(fs, "fields", <<>>),
     sql_query |-> Get(fs, "sql_query", <<>>),
     fetched_data |-> Get(fs, "fetched_data", <<>>),
     summary |-> Get(fs, "summary", <<>>),
     error |-> Get(fs, "error", <<>>)]

Render ==
    /\ pc = "end"
    /\ result' = ResultOf(final_state, state.user_query)
    /\ pc' = "rendered"
    /\ UNCHANGED <<state, steps, recursion_limit, final_state, gatewayCalls, storeLog,
                   ran, form>>

Next ==
    \/ Post
    \/ ExtractInfo
    \/ ValidateAndRoute
    \/ FetchData
    \/ Summarize
    \/ NoData
    \/ Render

Spec == Init /\ [][Next]_vars

NextCeiling == Next \/ RecursionAbort

SpecCeiling == InitCeiling /\ [][NextCeiling]_vars

\* graph.invoke runs the stage that is due, and index then builds the result:
\* nothing in the synchronous run waits on anything but the call in progress
StageStep == ExtractInfo \/ ValidateAndRoute \/ FetchData \/ Summarize \/ NoData \/ Render

SpecLive == Spec /\ WF_vars(StageStep)

\* contexts a stage function may be handed when it is called on its own
StageContexts ==
    { [user_query |-> <<"show", " ", "acuity", " ", "for", " ", "P1">>,
       fields |-> f, patient_id |-> p, fetched_data |-> fd, summary |-> sm,
       error |-> e, sql_query |-> <<>>] :
        f \in {<<>>, <<"VisualAcuityRe">>, <<"VisualAcuityRe", "VisualAcuityLe">>},
        p \in {<<>>, <<"P1">>, <<"P2">>},
        e \in {<<>>, ErrNothingExtracted},
        sm \in {<<>>, MsgNoMeaningful},
        fd \in {<<>>, <<[VisualAcuityRe |-> "6/6"]>>} }

\* a stage function called on its own, on any context
InitStage ==
    /\ pc \in {"validate_and_route", "fetch_data", "no_data_node"}
    /\ state \in StageContexts
    /\ steps = 0
    /\ recursion_limit = RecursionLimit
    /\ final_state = EmptyState
    /\ result = NoResult
    /\ gatewayCalls = <<>>
    /\ storeLog = <<>>
    /\ ran = <<>>
    /\ form = state.user_query

\* pipeline runs, and the stage functions called on their own
SpecStage == (Init \/ InitStage) /\ [][Next]_vars

\* ---------------------------------------------------------------- claims

\* the gate of the claims, stated on the statement's text: it begins with
\* SELECT in any case and holds Anonymous_Uid = '<pid>' literally
GatePassed(stmt, pid) ==
    /\ stmt # <<>>
    /\ stmt[1] \in {"SELECT", "select", "Select"}
    /\ \E i \in 1..Len(stmt) :
           /\ i + Len(pid) + 1 <= Len(stmt)
           /\ stmt[i] = "Anonymous_Uid = '"
           /\ SubSeq(stmt, i + 1, i + Len(pid)) = pid
           /\ stmt[i + Len(pid) + 1] = "'"

\* the completions the gateway returned for the statement prompt
SqlCompletions ==
    {gatewayCalls[i].resp.content : i \in {j \in 1..Len(gatewayCalls) :
        gatewayCalls[j].task = "sql" /\ gatewayCalls[j].resp.ok}}

\* this run drafted a statement and the gate rejected it
GateRejected == \E c \in SqlCompletions : ~GatePassed(Sanitize(c), state.patient_id)

\* extraction found fields and an identifier
BothExtracted == steps >= 1 /\ state.fields # <<>> /\ state.patient_id # <<>>

\* the store ran a statement and returned its rows
StoreReturned == storeLog # <<>> /\ storeLog[1].closed

\* C1: when fields and an identifier were extracted and the drafted
\* statement fails the gate, the result has no fetched data and its error
\* is the validation-failure message.
C1_ValidationFailureReported ==
    (result.present /\ BothExtracted /\ GateRejected)
        => (result.fetched_data = <<>> /\ result.error = ErrValidation)

\* C2: when extraction finds no field and no identifier, the final context
\* and the result have a non-empty error and no fetched data.
C2_NothingExtractedEndsInError ==
    (pc \in {"end", "rendered"} /\ state.fields = <<>> /\ state.patient_id = <<>>)
        => /\ final_state.error # <<>>
           /\ final_state.fetched_data = <<>>
           /\ result.present => (result.error # <<>> /\ result.fetched_data = <<>>)

\* a run whose field completion named only unknown fields has been rendered
C2_Witness ==
    /\ pc = "rendered"
    /\ state.fields = <<>> /\ state.patient_id = <<>>
    /\ \E i \in 1..Len(gatewayCalls) :
           /\ gatewayCalls[i].task = "fields"
           /\ gatewayCalls[i].resp = Completion(<<"[", "'Bogus'", "]">>)
    /\ result.error = ErrNothingExtracted

\* C3: once error is non-empty it stays non-empty in every later state of
\* the run.
C3_ErrorStaysSet == [][(state.error # <<>>) => (state'.error # <<>>)]_vars

\* C4: the store only ever executes a statement that passed the gate, and
\* when the gate rejects the drafted statement the store is not called,
\* sql_query keeps the rejected statement and fetched_data is empty after
\* the fetch stage.
C4_OnlyValidatedStatementsExecuted ==
    /\ \A i \in 1..Len(storeLog) : GatePassed(storeLog[i].stmt, state.patient_id)
    /\ \A c \in SqlCompletions :
           (pc = "summarize" /\ ~GatePassed(Sanitize(c), state.patient_id))
               => /\ storeLog = <<>>
                  /\ state.sql_query = Sanitize(c)
                  /\ state.fetched_data = <<>>

\* the fetch stage has just rejected a statement that names another patient
C4_Witness ==
    /\ pc = "summarize"
    /\ state.patient_id = <<"P1">>
    /\ Contains(state.sql_query, <<"Anonymous_Uid = '", "P2", "'">>)
    /\ GateRejected
    /\ storeLog = <<>>

\* C5: the caller always receives a result in which at least one of error
\* and summary is non-empty.
C5_ResultExplains ==
    result.present => (result.error # <<>> \/ result.summary # <<>>)

\* the store returned at least one row with a non-blank value
StoreReturnedData == StoreReturned /\ ~NoMeaningfulData(storeLog[1].results)

\* the gateway's answers to the summary prompt
SummaryAnswers ==
    {gatewayCalls[i].resp : i \in {j \in 1..Len(gatewayCalls) :
        gatewayCalls[j].task = "summary"}}

\* C6 as claimed: on the success path the result has the returned rows, a
\* statement with the identifier condition, a non-empty summary and an
\* empty error.
C6_SuccessPathOriginal ==
    (result.present /\ BothExtracted /\ StoreReturnedData)
        => /\ result.fetched_data = storeLog[1].results
           /\ Contains(result.sql_query, IdCondition(state.patient_id))
           /\ result.summary # <<>>
           /\ result.error = <<>>

\* C6 amended: on the success path the result has the returned rows and a
\* statement with the identifier condition; when the summary call returns a
\* completion, summary is that completion trimmed (non-empty unless the
\* completion is blank) and error is empty; when the call fails, summary
\* and error are both the summarization-error message.
C6_SuccessPath ==
    (result.present /\ BothExtracted /\ StoreReturnedData)
        => /\ result.fetched_data = storeLog[1].results
           /\ Contains(result.sql_query, IdCondition(state.patient_id))
           /\ \A a \in SummaryAnswers :
                  IF a.ok
                  THEN /\ result.summary = Strip(a.content)
                       /\ result.error = <<>>
                       /\ (Strip(a.content) # <<>> => result.summary # <<>>)
                  ELSE result.summary = ErrSummarization /\ result.error = ErrSummarization
           /\ SummaryAnswers # {}

\* a success-path run whose summary completion carried surrounding
\* whitespace has been rendered
C6_Witness ==
    /\ result.present /\ BothExtracted /\ StoreReturnedData
    /\ \E a \in SummaryAnswers : a.ok /\ a.content # Strip(a.content)
    /\ result.summary # <<>>
    /\ result.error = <<>>
    /\ Len(result.fetched_data) >= 1

\* C7: when fields and an identifier were found, the statement passed the
\* gate and the store returned zero rows, summarize runs after fetch_data
\* and the final context has no fetched data, the no-meaningful-data
\* summary and an empty error.
C7_ZeroRows ==
    (BothExtracted /\ StoreReturned /\ storeLog[1].results = <<>>)
        => /\ pc \in {"summarize", "end", "rendered"}
           /\ pc \in {"end", "rendered"}
                  => /\ steps = 4
                     /\ final_state.fetched_data = <<>>
                     /\ final_state.summary = MsgNoMeaningful
                     /\ final_state.error = <<>>
           /\ result.present
                  => /\ result.fetched_data = <<>>
                     /\ result.summary = MsgNoMeaningful
                     /\ result.error = <<>>

\* a run whose statement was executed and selected no row has been rendered
C7_Witness ==
    /\ pc = "rendered"
    /\ BothExtracted /\ StoreReturned /\ storeLog[1].results = <<>>
    /\ GatePassed(result.sql_query, state.patient_id)
    /\ result.summary = MsgNoMeaningful

\* the run was aborted at the step ceiling
Aborted == pc \in {"end", "rendered"} /\ DOMAIN final_state = {"error", "sql_query"}

\* C8: a run that needs more stage executions than the ceiling allows is
\* aborted, and the caller's result then has the recursion-limit error and
\* an empty summary, fetched_data and sql_query.  Every run needs at least
\* three stage executions, and four when it fetches.
C8_CeilingAbort ==
    /\ (pc \in {"end", "rendered"} /\ recursion_limit < 3) => Aborted
    /\ (pc \in {"end", "rendered"} /\ recursion_limit < 4
        /\ steps >= 2 /\ route_valid(state) = "fetch_data") => Aborted
    /\ (result.present /\ Aborted)
           => /\ result.error = ErrRecursion
              /\ result.summary = <<>>
              /\ result.fetched_data = <<>>
              /\ result.sql_query = <<>>
              /\ result.fields = <<>>

\* with ceiling 1 the run was aborted after extraction had found fields
C8_Witness ==
    /\ pc = "rendered"
    /\ recursion_limit = 1
    /\ steps = 1
    /\ state.fields # <<>>
    /\ result.error = ErrRecursion

\* C9: every member of fields is a key of the catalog, in every context and
\* in the result.
C9_FieldsInCatalog ==
    /\ Range(state.fields) \subseteq FIELD_DEFS
    /\ Range(Get(final_state, "fields", <<>>)) \subseteq FIELD_DEFS
    /\ result.present => Range(result.fields) \subseteq FIELD_DEFS

\* the gateway named a field the catalog does not have beside one it has,
\* and the run has been rendered
C9_Witness ==
    /\ pc = "rendered"
    /\ \E i \in 1..Len(gatewayCalls) :
           /\ gatewayCalls[i].task = "fields"
           /\ gatewayCalls[i].resp =
                  Completion(<<"[", "'VisualAcuityRe'", ",", "'Bogus'", "]">>)
    /\ result.fields = <<"VisualAcuityRe">>

\* the Router's decision as the claim states it
Decision(error, fields, patient_id) ==
    IF error # <<>> THEN "no_data_node"
    ELSE IF fields # <<>> /\ patient_id # <<>> THEN "fetch_data"
    ELSE "no_data_node"

\* C10: the Router's decision is the stated function of error, fields and
\* patient_id alone, and routing leaves the context unchanged, so that
\* routing again decides the same.
C10_RouterDecision ==
    /\ [](\A q \in FormInputs, t \in {<<>>, ErrValidation} :
              route_valid([state EXCEPT !.user_query = q, !.summary = t,
                                        !.sql_query = t, !.fetched_data = t])
                  = Decision(state.error, state.fields, state.patient_id))
    /\ [][pc = "validate_and_route"
              => /\ state' = state
                 /\ pc' = Decision(state.error, state.fields, state.patient_id)
                 /\ route_valid(state') = pc']_vars

\* the Router has sent a run with fields and an identifier to fetch_data
C10_Witness ==
    /\ pc = "fetch_data"
    /\ steps = 2
    /\ state.error = <<>>
    /\ state.fields # <<>> /\ state.patient_id # <<>>

\* the stage sequences of the graph's two paths
FetchPath == <<"extract_info", "validate_and_route", "fetch_data", "summarize">>
NoDataPath == <<"extract_info", "validate_and_route", "no_data_node">>

\* C11: with the ceiling of 5 a run makes at most 4 stage executions, runs
\* no stage twice, never has a stage due with the ceiling reached, and ends
\* after summarize or no_data_node; every run that starts is rendered.
C11_TerminatesWithinCeiling ==
    /\ [](/\ steps <= 4
          /\ steps = Len(ran)
          /\ \A i, j \in 1..Len(ran) : ran[i] = ran[j] => i = j
          /\ ~(pc \in Stages /\ steps >= recursion_limit)
          /\ pc \in {"end", "rendered"}
                 => /\ ran \in {FetchPath, NoDataPath}
                    /\ final_state.error # ErrRecursion)
    /\ (pc = "extract_info") ~> (pc = "rendered")

\* a run that fetched has been rendered after four stage executions
C11_Witness ==
    /\ pc = "rendered"
    /\ ran = FetchPath
    /\ steps = 4
    /\ recursion_limit = 5

\* the message the claim gives the No-Data Resolver, in the cases it covers
ClaimedNoDataMessage(st) ==
    IF st.error # <<>> THEN st.error
    ELSE IF st.fields = <<>> /\ st.patient_id = <<>> THEN MsgNoFieldsNoId
    ELSE IF st.fields # <<>> /\ st.patient_id = <<>> THEN MsgNoId
    ELSE MsgNoFields

\* C12: the No-Data Resolver uses a non-empty error verbatim, else the
\* no-fields-and-no-identifier message when both are missing, else the
\* identifier-missing message when only the identifier is missing, else the
\* fields-missing message when only the fields are missing; the stage ends
\* with summary and error both that message and fetched_data empty.
C12_NoDataPriority ==
    [][(pc = "no_data_node"
        /\ (state.error # <<>> \/ state.fields = <<>> \/ state.patient_id = <<>>))
          => /\ state'.summary = ClaimedNoDataMessage(state)
             /\ state'.error = ClaimedNoDataMessage(state)
             /\ state'.fetched_data = <<>>
             /\ final_state' = state']_vars

\* the resolver, called on its own on a context with no error, no fields
\* and no identifier, has answered
C12_Witness ==
    /\ pc = "end"
    /\ ran = <<"no_data_node">>
    /\ state.fields = <<>> /\ state.patient_id = <<>>
    /\ state.summary = MsgNoFieldsNoId
    /\ state.error = MsgNoFieldsNoId
    /\ state.fetched_data = <<>>

\* C13: in a pipeline run no_data_node is only entered with a non-empty
\* error or with fields or patient_id empty, and the "Unknown error."
\* fallback never appears.
C13_UnknownErrorUnreachable ==
    /\ pc = "no_data_node"
           => (state.error # <<>> \/ state.fields = <<>> \/ state.patient_id = <<>>)
    /\ state.summary # MsgUnknown
    /\ state.error # MsgUnknown
    /\ result.present => (result.summary # MsgUnknown /\ result.error # MsgUnknown)

\* the Router has sent a run with fields but no identifier to no_data_node
C13_Witness ==
    /\ pc = "no_data_node"
    /\ ran = <<"extract_info", "validate_and_route">>
    /\ state.error = <<>>
    /\ state.fields # <<>>
    /\ state.patient_id = <<>>

\* the gateway was asked for a statement
StatementDrafted == \E i \in 1..Len(gatewayCalls) : gatewayCalls[i].task = "sql"

\* C14: in a pipeline run fetch_data is only entered with fields and
\* patient_id non-empty and error empty; no statement is drafted or executed
\* for a context lacking either; and the stage, handed a context lacking
\* either, returns the missing-for-fetch error with empty fetched_data and
\* sql_query and calls neither the gateway nor the store.
C14_FetchNeedsCompleteContext ==
    /\ []((pc = "fetch_data" /\ ran = <<"extract_info", "validate_and_route">>)
              => (state.fields # <<>> /\ state.patient_id # <<>> /\ state.error = <<>>))
    /\ []((StatementDrafted \/ storeLog # <<>>)
              => (state.fields # <<>> /\ state.patient_id # <<>>))
    /\ [][(pc = "fetch_data" /\ (state.fields = <<>> \/ state.patient_id = <<>>))
              => /\ state' = [state EXCEPT !.error = ErrMissingForFetch,
                                           !.fetched_data = <<>>,
                                           !.sql_query = <<>>]
                 /\ gatewayCalls' = gatewayCalls
                 /\ storeLog' = storeLog]_vars

\* the fetch stage, handed a context with fields but no identifier, has
\* returned
C14_Witness ==
    /\ pc = "summarize"
    /\ ran = <<"fetch_data">>
    /\ state.fields # <<>>
    /\ state.patient_id = <<>>
    /\ state.error = ErrMissingForFetch
    /\ gatewayCalls = <<>>
    /\ storeLog = <<>>

\* C15: every store connection the fetch stage acquired has been closed
\* when the stage returns, and at most one statement was executed on it.
C15_ConnectionReleased ==
    \A i \in 1..Len(storeLog) : storeLog[i].closed /\ storeLog[i].executed <= 1

\* the number of semicolons in a text
RECURSIVE Semicolons(_)
Semicolons(s) ==
    IF s = <<>> THEN 0
    ELSE (IF Head(s) = ";" THEN 1 ELSE 0) + Semicolons(Tail(s))

\* the text ends with a semicolon that no other semicolon directly precedes
EndsWithOneSemicolon(s) ==
    /\ s # <<>>
    /\ s[Len(s)] = ";"
    /\ Len(s) = 1 \/ s[Len(s) - 1] # ";"

\* C16 as claimed: sql_query is empty or a single statement that begins
\* with SELECT and is terminated by exactly one semicolon.
C16_SqlQueryWellFormedOriginal ==
    \/ state.sql_query = <<>>
    \/ /\ state.sql_query[1] = "SELECT"
       /\ EndsWithOneSemicolon(state.sql_query)
       /\ Semicolons(state.sql_query) = 1

\* C16 amended: sql_query is empty or text that ends with a semicolon no
\* other semicolon directly precedes; it begins with SELECT in any letter
\* case and holds the identifier condition when it passed the gate, and
\* otherwise it is the statement the gate rejected, kept as sanitized and
\* never executed.
C16_SqlQueryShape ==
    \/ state.sql_query = <<>>
    \/ /\ EndsWithOneSemicolon(state.sql_query)
       /\ \/ GatePassed(state.sql_query, state.patient_id)
          \/ /\ GateRejected
             /\ storeLog = <<>>

\* the fetch stage has kept a rejected statement that is no SELECT statement
C16_Witness ==
    /\ pc = "summarize"
    /\ state.sql_query # <<>>
    /\ state.sql_query[1] = "DELETE"
    /\ EndsWithOneSemicolon(state.sql_query)
    /\ GateRejected

\* a drafted SELECT statement wrapped in code fences: the opening fence, an
\* optional language tag, a line break, then the statement
FencedDraft(c) ==
    /\ c # <<>>
    /\ c[1] = FENCE
    /\ \E i \in 3..Len(c) :
           /\ c[i] = "SELECT"
           /\ c[i - 1] = "\n"
           /\ \A j \in 2..(i - 2) : c[j] \notin (WS \cup {FENCE, ";"})

\* C17: for every fenced draft, with or without a language tag and with any
\* trailing semicolons, the sanitizer's output starts with SELECT, holds no
\* fence marker and ends with exactly one semicolon.
C17_SanitizerOnFencedDrafts ==
    \A c \in SqlCompletions :
        FencedDraft(c)
            => /\ Sanitize(c)[1] = "SELECT"
               /\ FENCE \notin Range(Sanitize(c))
               /\ EndsWithOneSemicolon(Sanitize(c))

\* the answers the gateway gave to one of the extractors' prompts
ExtractorAnswers(task) ==
    {gatewayCalls[i].resp : i \in {j \in 1..Len(gatewayCalls) :
        gatewayCalls[j].task = task}}

\* field completions that are no Python literal
UnparsableFieldCompletions ==
    { <<FENCE, "python", "\n", "[", "'Diagnosis'", "]", "\n", FENCE>>, <<>> }

\* C18: after extraction error is the fixed message exactly when no field
\* and no identifier was found, and empty otherwise; a gateway failure in
\* the identifier sub-task and a parse failure in the field sub-task count
\* as nothing found and alone produce no error.
C18_ExtractionError ==
    pc = "validate_and_route"
        => /\ state.error \in {<<>>, ErrNothingExtracted}
           /\ state.error = ErrNothingExtracted
                  <=> (state.fields = <<>> /\ state.patient_id = <<>>)
           /\ \A a \in ExtractorAnswers("patient_id") :
                  ~a.ok => /\ state.patient_id = <<>>
                           /\ state.fields # <<>> => state.error = <<>>
           /\ \A a \in ExtractorAnswers("fields") :
                  (~a.ok \/ a.content \in UnparsableFieldCompletions)
                      => /\ state.fields = <<>>
                         /\ state.patient_id # <<>> => state.error = <<>>

\* extraction has found fields while the identifier call failed
C18_Witness ==
    /\ pc = "validate_and_route"
    /\ Raised \in ExtractorAnswers("patient_id")
    /\ state.fields # <<>>
    /\ state.patient_id = <<>>
    /\ state.error = <<>>

\* C19: the keys of every mapping in fetched_data are among the context's
\* fields.
C19_FetchedKeysInFields ==
    \A i \in 1..Len(state.fetched_data) :
        DOMAIN state.fetched_data[i] \subseteq Range(state.fields)

\* C20: for an empty or whitespace-only user_query the run calls neither
\* the gateway nor the store, goes to no_data_node, and ends with error and
\* summary both the nothing-extracted message, no fetched data and an empty
\* sql_query.
C20_BlankQuery ==
    (pc # "idle" /\ Strip(form) = <<>>)
        => /\ gatewayCalls = <<>>
           /\ storeLog = <<>>
           /\ pc \notin {"fetch_data", "summarize"}
           /\ state.sql_query = <<>>
           /\ state.fetched_data = <<>>
           /\ pc \in {"end", "rendered"}
                  => /\ ran = NoDataPath
                     /\ final_state.error = ErrNothingExtracted
                     /\ final_state.summary = ErrNothingExtracted
           /\ result.present
                  => /\ result.error = ErrNothingExtracted
                     /\ result.summary = ErrNothingExtracted
                     /\ result.fetched_data = <<>>
                     /\ result.sql_query = <<>>

\* a whitespace-only query has been rendered
C20_Witness ==
    /\ pc = "rendered"
    /\ form = <<" ">>
    /\ ran = NoDataPath
    /\ result.error = ErrNothingExtracted

====
